---- MODULE Spec2Model ----
(***************************************************************************)
(* Model of the transaction REST backend: the authenticate middleware      *)
(* (src/middleware/auth.js), the Transaction schema (src/unnamed/part_000) *)
(* and the transaction router (src/routes/transactions.js).                *)
(*                                                                         *)
(* A request on connection c first runs authenticate; only after it calls  *)
(* next() does one of the route handlers run.  Every store call of a       *)
(* handler (save, find, countDocuments, findOne, findOneAndUpdate,         *)
(* findOneAndDelete, aggregate) is one atomic step; the list and the       *)
(* analytics handlers make two store calls each and so take two steps.     *)
(*                                                                         *)
(* Dates are integers (instants), amounts are integers, descriptions are   *)
(* tuples of one-character strings.  Schema fields that every handler      *)
(* passes through untouched (subcategory, taxCategory, location, notes,    *)
(* tags, timestamps, ...) are left out of the documents.                   *)
(***************************************************************************)
EXTENDS Integers, Sequences, FiniteSets, TLC

VARIABLES
    txs,      \* the transactions collection: _id -> document
    nextId,   \* the next fresh ObjectId
    now,      \* the clock (Date.now())
    req,      \* per connection: where its request stands, req.user, locals
    res       \* the last step's request and the response it sent

vars == <<txs, nextId, now, req, res>>

----------------------------------------------------------------------------
\* Bounds of the model

MaxTx == 2
MaxSummaryTx == 3
MaxTime == 2

Conns == {1, 2}

----------------------------------------------------------------------------
\* Generic helpers

Restrict(f, D) == [k \in D |-> f[k]]

\* { ...f, ...g }
Merge(f, g) == [k \in (DOMAIN f) \cup (DOMAIN g) |-> IF k \in DOMAIN g THEN g[k] ELSE f[k]]

Has(f, k) == k \in DOMAIN f

Abs(n) == IF n < 0 THEN -n ELSE n

RECURSIVE SumOver(_, _)
SumOver(S, f) ==
    IF S = {} THEN 0
    ELSE LET x == CHOOSE y \in S : TRUE IN f[x] + SumOver(S \ {x}, f)

\* Variant: one more than the whole quotient
Ceil_PlusOne(a, b) == (a \div b) + 1

Ceil(a, b) == IF a % b = 0 THEN a \div b ELSE (a \div b) + 1

----------------------------------------------------------------------------
\* The User collection (src/unnamed/part_001) as authenticate sees it.
\* "u3" is a deactivated account; a token may also name an id with no user.

UserDocs == [u1 |-> [isActive |-> TRUE], u2 |-> [isActive |-> TRUE], u3 |-> [isActive |-> FALSE]]

TokenIds == {"u1", "u2", "u3", "u9"}

\* jwt.verify: returns decoded or throws an error with this name
JwtOutcomes == {"ok", "JsonWebTokenError", "TokenExpiredError", "NotBeforeError"}

\* The inputs of authenticate: the Authorization header, what jwt.verify does
\* with the token, the id the token carries, and whether user.save() fails.
Headers ==
    [scheme : {"none", "Basic", "Bearer"}, verify : {"ok"}, id : {"u1"}, saveFails : {FALSE}]
    \cup [scheme : {"Bearer"}, verify : JwtOutcomes, id : {"u1"}, saveFails : {FALSE}]
    \cup [scheme : {"Bearer"}, verify : {"ok"}, id : TokenIds, saveFails : BOOLEAN]

\* Variant: authenticate without the isActive check
authenticate_NoActiveCheck(h) ==
    IF h.scheme = "none" THEN [next |-> FALSE, status |-> 401, code |-> "NO_TOKEN"]
    ELSE IF h.scheme # "Bearer" THEN [next |-> FALSE, status |-> 401, code |-> "INVALID_TOKEN_FORMAT"]
    ELSE IF h.verify = "JsonWebTokenError" THEN [next |-> FALSE, status |-> 401, code |-> "INVALID_TOKEN"]
    ELSE IF h.verify = "TokenExpiredError" THEN [next |-> FALSE, status |-> 401, code |-> "TOKEN_EXPIRED"]
    ELSE IF h.verify # "ok" THEN [next |-> FALSE, status |-> 500, code |-> "AUTH_ERROR"]
    ELSE IF h.id \notin DOMAIN UserDocs THEN [next |-> FALSE, status |-> 401, code |-> "USER_NOT_FOUND"]
    ELSE IF h.saveFails THEN [next |-> FALSE, status |-> 500, code |-> "AUTH_ERROR"]
    ELSE [next |-> TRUE, user |-> h.id]

\* What authenticate does with a request: call next() with req.user set, or
\* answer with a status and a code.
authenticate(h) ==
    IF h.scheme = "none" THEN [next |-> FALSE, status |-> 401, code |-> "NO_TOKEN"]
    ELSE IF h.scheme # "Bearer" THEN [next |-> FALSE, status |-> 401, code |-> "INVALID_TOKEN_FORMAT"]
    ELSE IF h.verify = "JsonWebTokenError" THEN [next |-> FALSE, status |-> 401, code |-> "INVALID_TOKEN"]
    ELSE IF h.verify = "TokenExpiredError" THEN [next |-> FALSE, status |-> 401, code |-> "TOKEN_EXPIRED"]
    ELSE IF h.verify # "ok" THEN [next |-> FALSE, status |-> 500, code |-> "AUTH_ERROR"]
    ELSE IF h.id \notin DOMAIN UserDocs THEN [next |-> FALSE, status |-> 401, code |-> "USER_NOT_FOUND"]
    ELSE IF ~UserDocs[h.id].isActive THEN [next |-> FALSE, status |-> 401, code |-> "ACCOUNT_INACTIVE"]
    ELSE IF h.saveFails THEN [next |-> FALSE, status |-> 500, code |-> "AUTH_ERROR"]
    ELSE [next |-> TRUE, user |-> h.id]

----------------------------------------------------------------------------
\* The Joi transactionSchema and the mongoose schema

Categories ==
    {"Food & Dining", "Transportation", "Shopping", "Entertainment", "Bills & Utilities",
     "Healthcare", "Education", "Travel", "Business Expenses", "Income", "Investment",
     "Transfer", "Other"}

Types == {"income", "expense", "transfer"}

PaymentMethods ==
    {"cash", "credit_card", "debit_card", "bank_transfer", "mobile_payment", "check", "other"}

\* The keys of transactionSchema that the model's bodies may carry
SchemaKeys ==
    {"amount", "description", "date", "category", "type", "isTaxDeductible", "paymentMethod"}

RequiredKeys == {"amount", "description", "date", "category"}

\* Variant: amount without .not(0)
amountError_ZeroAllowed(v) == ""

\* amount: Joi.number().not(0)
amountError(v) == IF v = 0 THEN "Amount cannot be zero" ELSE ""

\* Variant: date without .max('now')
dateError_NoMax(v, clock) == ""

\* date: Joi.date().max('now')
dateError(v, clock) == IF v > clock THEN "Transaction date cannot be in the future" ELSE ""

\* Joi's verdict on one key of the body; "" is no error.  required is the set
\* of keys the schema requires (none of them after fork(..., optional)).
JoiKeyError(body, k, required, clock) ==
    IF ~Has(body, k) THEN
        (IF k \in required THEN
            (CASE k = "amount" -> "Amount is required"
               [] k = "description" -> "Description is required"
               [] k = "date" -> "Transaction date is required"
               [] k = "category" -> "Category is required")
         ELSE "")
    ELSE CASE k = "amount" -> amountError(body.amount)
           [] k = "description" -> IF Len(body.description) < 1 THEN "Description cannot be empty" ELSE ""
           [] k = "date" -> dateError(body.date, clock)
           [] k = "category" -> IF body.category \notin Categories THEN "Please select a valid category" ELSE ""
           [] k = "type" -> IF body.type \notin Types THEN "type must be one of [income, expense, transfer]" ELSE ""
           [] k = "isTaxDeductible" -> IF body.isTaxDeductible \notin BOOLEAN THEN "isTaxDeductible must be a boolean" ELSE ""
           [] k = "paymentMethod" -> IF body.paymentMethod \notin PaymentMethods THEN "paymentMethod must be one of the allowed values" ELSE ""

\* The keys in the order the schema validates them
SchemaOrder == <<"amount", "description", "date", "category", "type", "isTaxDeductible", "paymentMethod">>

\* Variant: the schema lets unknown keys through (allowUnknown)
JoiUnknownError_Allowed(body) == ""

\* Keys the schema does not know are not allowed (Joi's default).
JoiUnknownError(body) ==
    IF (DOMAIN body) \subseteq SchemaKeys THEN "" ELSE "key is not allowed"

\* The defaults Joi fills in for absent keys
JoiDefaults == [isTaxDeductible |-> FALSE, paymentMethod |-> "other"]

\* schema.validate(body): { error, value }; the first error ends the validation.
JoiValidate(body, required, clock) ==
    LET errs == [i \in 1..Len(SchemaOrder) |-> JoiKeyError(body, SchemaOrder[i], required, clock)]
        bad == {i \in 1..Len(SchemaOrder) : errs[i] # ""}
        first == CHOOSE i \in bad : \A j \in bad : i <= j
    IN  IF bad # {} THEN [error |-> TRUE, details |-> errs[first]]
        ELSE IF JoiUnknownError(body) # "" THEN [error |-> TRUE, details |-> JoiUnknownError(body)]
        ELSE [error |-> FALSE, value |-> Merge(JoiDefaults, body)]

\* transactionSchema.validate(req.body) of POST
transactionSchemaValidate(body, clock) == JoiValidate(body, RequiredKeys, clock)

\* transactionSchema.fork([...], optional).validate(req.body) of PUT
updateSchemaValidate(body, clock) == JoiValidate(body, {}, clock)

\* The mongoose schema's validators on the paths a document or a $set carries
MongooseValid(d) ==
    /\ Has(d, "amount") => d.amount # 0
    /\ Has(d, "category") => d.category \in Categories
    /\ Has(d, "type") => d.type \in Types
    /\ Has(d, "paymentMethod") => d.paymentMethod \in PaymentMethods

\* pre('save'): the type follows the sign of the amount when it is not set
preSave(d) ==
    IF Has(d, "type") THEN d
    ELSE Merge(d, [type |-> IF d.amount > 0 THEN "income" ELSE "expense"])

----------------------------------------------------------------------------
\* Store calls on the Transaction model.  Ids 1, 2, ... are well-formed
\* ObjectIds; the id 0 stands for a string that does not cast to an ObjectId.

IsObjectId(id) == id >= 1

NoDoc == [_id |-> 0]

\* Variant: the lookup by _id alone
FindOne_AnyOwner(store, id, user) ==
    IF id \in DOMAIN store THEN store[id] ELSE NoDoc

\* The documents satisfying { _id: id, userId: user }
FindOne(store, id, user) ==
    IF id \in DOMAIN store /\ store[id].userId = user THEN store[id] ELSE NoDoc

\* Variant: the update recomputes the type from a new amount
ApplySet_Rederive(store, id, value) ==
    [store EXCEPT ![id] =
        IF Has(value, "amount") /\ ~Has(value, "type")
        THEN Merge(Merge(store[id], value), [type |-> IF value.amount > 0 THEN "income" ELSE "expense"])
        ELSE Merge(store[id], value)]

\* Variant: the fields the document already has are left as they are
ApplySet_KeepStored(store, id, value) ==
    [store EXCEPT ![id] = Merge(value, store[id])]

\* The store after Model.findOneAndUpdate(cond, { $set: value }) hit document id
ApplySet(store, id, value) ==
    [store EXCEPT ![id] = Merge(store[id], value)]

Remove(store, id) == Restrict(store, (DOMAIN store) \ {id})

Insert(store, doc) ==
    [k \in (DOMAIN store) \cup {doc._id} |-> IF k = doc._id THEN doc ELSE store[k]]

----------------------------------------------------------------------------
\* The route handlers, as functions of the store, req.user and the request:
\* the store they leave and the response they send.

NotFound(what) ==
    [error |-> "Transaction not found",
     message |-> "Transaction does not exist or you do not have permission to " \o what \o " it"]

ServerError(what) == [error |-> "Internal server error", message |-> what]

ValidationFailed(details) == [error |-> "Validation failed", details |-> details]

\* Variant: the type always set from the sign of the amount
deriveType_AlwaysBySign(value) ==
    Merge(value, [type |-> IF value.amount > 0 THEN "income" ELSE "expense"])

\* POST /: the type set from the amount when the body has none
deriveType(value) ==
    IF Has(value, "type") THEN value
    ELSE Merge(value, [type |-> IF value.amount > 0 THEN "income" ELSE "expense"])

\* POST /: new Transaction({ ...value, userId: req.user._id, source: 'manual' })
newTransaction(value, user, id) ==
    Merge(value, [userId |-> user, source |-> "manual", _id |-> id])

\* router.post('/')
postTransaction(store, id, user, body, clock) ==
    LET v == transactionSchemaValidate(body, clock)
    IN  IF v.error THEN [store |-> store, status |-> 400, json |-> ValidationFailed(v.details)]
        ELSE LET doc == preSave(newTransaction(deriveType(v.value), user, id))
             IN  IF ~MongooseValid(doc)
                 THEN [store |-> store, status |-> 500, json |-> ServerError("Failed to create transaction")]
                 ELSE [store |-> Insert(store, doc), status |-> 201,
                       json |-> [success |-> TRUE, transaction |-> doc]]

\* router.get('/:id')
getTransaction(store, user, id) ==
    IF ~IsObjectId(id)
    THEN [store |-> store, status |-> 500, json |-> ServerError("Failed to fetch transaction")]
    ELSE LET t == FindOne(store, id, user)
         IN  IF t = NoDoc THEN [store |-> store, status |-> 404, json |-> NotFound("view")]
             ELSE [store |-> store, status |-> 200, json |-> [success |-> TRUE, transaction |-> t]]

\* Variant: the update inserts the document when the lookup finds none, the
\* paths the body does not carry left blank
putTransaction_Upsert(store, user, id, body, clock) ==
    LET v == updateSchemaValidate(body, clock)
        blank == [amount |-> -1, description |-> <<>>, date |-> 0, category |-> "Other",
                  type |-> "expense", source |-> "manual"]
    IN  IF v.error THEN [store |-> store, status |-> 400, json |-> ValidationFailed(v.details)]
        ELSE IF ~IsObjectId(id) \/ ~MongooseValid(v.value)
        THEN [store |-> store, status |-> 500, json |-> ServerError("Failed to update transaction")]
        ELSE LET t == FindOne(store, id, user)
                 after == IF t = NoDoc
                          THEN Insert(store, Merge(Merge(blank, v.value),
                                                   [_id |-> id, userId |-> user]))
                          ELSE ApplySet(store, id, v.value)
             IN  [store |-> after, status |-> 200,
                  json |-> [success |-> TRUE, transaction |-> after[id]]]

\* router.put('/:id')
putTransaction(store, user, id, body, clock) ==
    LET v == updateSchemaValidate(body, clock)
    IN  IF v.error THEN [store |-> store, status |-> 400, json |-> ValidationFailed(v.details)]
        ELSE IF ~IsObjectId(id) \/ ~MongooseValid(v.value)
        THEN [store |-> store, status |-> 500, json |-> ServerError("Failed to update transaction")]
        ELSE LET t == FindOne(store, id, user)
             IN  IF t = NoDoc THEN [store |-> store, status |-> 404, json |-> NotFound("update")]
                 ELSE LET after == ApplySet(store, id, v.value)
                      IN  [store |-> after, status |-> 200,
                           json |-> [success |-> TRUE, transaction |-> after[id]]]

\* router.delete('/:id')
deleteTransaction(store, user, id) ==
    IF ~IsObjectId(id)
    THEN [store |-> store, status |-> 500, json |-> ServerError("Failed to delete transaction")]
    ELSE LET t == FindOne(store, id, user)
         IN  IF t = NoDoc THEN [store |-> store, status |-> 404, json |-> NotFound("delete")]
             ELSE [store |-> Remove(store, id), status |-> 200,
                   json |-> [success |-> TRUE, transaction |-> t]]

----------------------------------------------------------------------------
\* GET /: the filter, the sort, the page

\* A numeric or date query string is modelled by what parsing makes of it:
\* Num(n) for a string that parses to n, NaN for one that does not parse.
Num(n) == [ok |-> TRUE, n |-> n]

NaN == [ok |-> FALSE, n |-> 0]

Lower(ch) == CASE ch = "A" -> "a" [] ch = "B" -> "b" [] OTHER -> ch

\* Whether the string is a regular expression at all ("(" alone is not)
RegexValid(p) == \A i \in 1..Len(p) : p[i] # "("

\* { $regex: p, $options: 'i' } on a description: p matches somewhere in t,
\* "." standing for any character, letters compared without case
RegexTest(p, t) ==
    \E i \in 1..(Len(t) - Len(p) + 1) :
        \A j \in 1..Len(p) : p[j] = "." \/ Lower(p[j]) = Lower(t[i + j - 1])

\* Variant: the owner read from the query string when it names one
buildFilter_OwnerFromQuery(user, q) ==
    LET owner == [userId |-> IF Has(q, "userId") THEN q.userId ELSE user]
        f1 == IF Has(q, "startDate") THEN Merge(owner, [dateGte |-> q.startDate]) ELSE owner
        f2 == IF Has(q, "endDate") THEN Merge(f1, [dateLte |-> q.endDate]) ELSE f1
        f3 == IF Has(q, "category") THEN Merge(f2, [category |-> q.category]) ELSE f2
        f4 == IF Has(q, "type") THEN Merge(f3, [type |-> q.type]) ELSE f3
        f5 == IF Has(q, "minAmount") THEN Merge(f4, [amountGte |-> q.minAmount]) ELSE f4
        f6 == IF Has(q, "maxAmount") THEN Merge(f5, [amountLte |-> q.maxAmount]) ELSE f5
    IN  IF Has(q, "search") THEN Merge(f6, [description |-> q.search]) ELSE f6

\* Variant: maxAmount read only inside the branch of minAmount
buildFilter_MaxOnlyWithMin(user, q) ==
    LET owner == [userId |-> user]
        f1 == IF Has(q, "startDate") THEN Merge(owner, [dateGte |-> q.startDate]) ELSE owner
        f2 == IF Has(q, "endDate") THEN Merge(f1, [dateLte |-> q.endDate]) ELSE f1
        f3 == IF Has(q, "category") THEN Merge(f2, [category |-> q.category]) ELSE f2
        f4 == IF Has(q, "type") THEN Merge(f3, [type |-> q.type]) ELSE f3
        f5 == IF Has(q, "minAmount") THEN Merge(f4, [amountGte |-> q.minAmount]) ELSE f4
        f6 == IF Has(q, "minAmount") /\ Has(q, "maxAmount")
              THEN Merge(f5, [amountLte |-> q.maxAmount]) ELSE f5
    IN  IF Has(q, "search") THEN Merge(f6, [description |-> q.search]) ELSE f6

\* The filter object GET / builds from req.query (lines 127-157)
buildFilter(user, q) ==
    LET owner == [userId |-> user]
        f1 == IF Has(q, "startDate") THEN Merge(owner, [dateGte |-> q.startDate]) ELSE owner
        f2 == IF Has(q, "endDate") THEN Merge(f1, [dateLte |-> q.endDate]) ELSE f1
        f3 == IF Has(q, "category") THEN Merge(f2, [category |-> q.category]) ELSE f2
        f4 == IF Has(q, "type") THEN Merge(f3, [type |-> q.type]) ELSE f3
        f5 == IF Has(q, "minAmount") THEN Merge(f4, [amountGte |-> q.minAmount]) ELSE f4
        f6 == IF Has(q, "maxAmount") THEN Merge(f5, [amountLte |-> q.maxAmount]) ELSE f5
    IN  IF Has(q, "search") THEN Merge(f6, [description |-> q.search]) ELSE f6

\* Whether the store accepts the filter: an Invalid Date or a NaN does not
\* cast, and a string that is no regular expression is refused
FilterCasts(f) ==
    /\ \A k \in {"dateGte", "dateLte", "amountGte", "amountLte"} : Has(f, k) => f[k].ok
    /\ Has(f, "description") => RegexValid(f.description)

\* Whether document d satisfies the filter
Matches(d, f) ==
    /\ d.userId = f.userId
    /\ Has(f, "dateGte") => d.date >= f.dateGte.n
    /\ Has(f, "dateLte") => d.date <= f.dateLte.n
    /\ Has(f, "category") => d.category = f.category
    /\ Has(f, "type") => d.type = f.type
    /\ Has(f, "amountGte") => d.amount >= f.amountGte.n
    /\ Has(f, "amountLte") => d.amount <= f.amountLte.n
    /\ Has(f, "description") => RegexTest(f.description, d.description)

Find(store, f) == {store[i] : i \in {j \in DOMAIN store : Matches(store[j], f)}}

countDocuments(store, f) == Cardinality(Find(store, f))

\* The orders in which the store may return the documents S sorted by
\* { key: dir }: documents with equal keys come in any order
SortedSeqs(S, key, dir) ==
    {s \in [1..Cardinality(S) -> S] :
        /\ \A i, j \in 1..Cardinality(S) : i # j => s[i] # s[j]
        /\ \A i, j \in 1..Cardinality(S) : i < j => dir * s[i][key] <= dir * s[j][key]}

Min(a, b) == IF a < b THEN a ELSE b

QueryDefaults == [page |-> 1, limit |-> 50, sortBy |-> "date", sortOrder |-> "desc"]

\* Variant: skip computed as page * limit
listFind_SkipPages(store, user, query) ==
    LET q == Merge(QueryDefaults, query)
        filter == buildFilter(user, q)
        dir == IF q.sortOrder = "asc" THEN 1 ELSE -1
        skip == q.page * q.limit
    IN  IF ~FilterCasts(filter) \/ skip < 0
        THEN [throws |-> TRUE]
        ELSE [throws |-> FALSE, filter |-> filter, page |-> q.page, limit |-> q.limit,
              results |-> {SubSeq(s, skip + 1, Min(skip + q.limit, Len(s))) :
                              s \in SortedSeqs(Find(store, filter), q.sortBy, dir)}]

\* GET / up to the find: whether it throws, and otherwise the filter and the
\* pages find(filter).sort(sort).skip(skip).limit(limit) may return
listFind(store, user, query) ==
    LET q == Merge(QueryDefaults, query)
        filter == buildFilter(user, q)
        dir == IF q.sortOrder = "asc" THEN 1 ELSE -1
        skip == (q.page - 1) * q.limit
    IN  IF ~FilterCasts(filter) \/ skip < 0
        THEN [throws |-> TRUE]
        ELSE [throws |-> FALSE, filter |-> filter, page |-> q.page, limit |-> q.limit,
              results |-> {SubSeq(s, skip + 1, Min(skip + q.limit, Len(s))) :
                              s \in SortedSeqs(Find(store, filter), q.sortBy, dir)}]

\* GET / from countDocuments on: the pagination and the response
listRespond(store, l) ==
    LET total == countDocuments(store, l.filter)
        totalPages == Ceil(total, l.limit)
    IN  [success |-> TRUE, transactions |-> l.transactions,
         pagination |-> [currentPage |-> l.page, totalPages |-> totalPages,
                         totalTransactions |-> total, hasNextPage |-> l.page < totalPages,
                         hasPrevPage |-> l.page > 1, limit |-> l.limit]]

----------------------------------------------------------------------------
\* GET /analytics/summary

\* The length of a month in instants, and the first instant of t's month
MonthLen == 2

startOfMonth(t) == t - (t % MonthLen)

\* start and end of the range (lines 329-331)
analyticsRange(query, clock) ==
    [start |-> IF Has(query, "startDate") THEN query.startDate ELSE startOfMonth(clock),
     end |-> IF Has(query, "endDate") THEN query.endDate ELSE clock]

\* Variant: the bounds of the range put in order before matching
InRange_Ordered(d, user, r) ==
    /\ d.userId = user
    /\ d.date >= Min(r.start, r.end)
    /\ d.date <= (IF r.start > r.end THEN r.start ELSE r.end)

\* $match: { userId, date: { $gte: start, $lte: end } }
InRange(d, user, r) == d.userId = user /\ d.date >= r.start /\ d.date <= r.end

Amounts(S) == [d \in S |-> d.amount]

AbsAmounts(S) == [d \in S |-> Abs(d.amount)]

\* The first aggregate: $match the owner and the range, $group by type with
\* the sum of the amounts and the count (the average is not modelled)
aggregateByType(store, user, r) ==
    LET M == {store[i] : i \in {j \in DOMAIN store : InRange(store[j], user, r)}}
    IN  [t \in {d.type : d \in M} |->
            LET G == {d \in M : d.type = t}
            IN  [totalAmount |-> SumOver(G, Amounts(G)), count |-> Cardinality(G)]]

\* Variant: the breakdown without the match on type
groupByCategory_AllTypes(store, user, r) ==
    LET M == {store[i] : i \in {j \in DOMAIN store : InRange(store[j], user, r)}}
    IN  {[_id |-> c,
          totalAmount |-> SumOver({d \in M : d.category = c}, AbsAmounts({d \in M : d.category = c})),
          count |-> Cardinality({d \in M : d.category = c})] : c \in {d.category : d \in M}}

\* The second aggregate before its $sort: the owner's expenses of the range
\* grouped by category with the sum of the absolute amounts and the count
groupByCategory(store, user, r) ==
    LET M == {store[i] : i \in {j \in DOMAIN store :
                  InRange(store[j], user, r) /\ store[j].type = "expense"}}
    IN  {[_id |-> c,
          totalAmount |-> SumOver({d \in M : d.category = c}, AbsAmounts({d \in M : d.category = c})),
          count |-> Cardinality({d \in M : d.category = c})] : c \in {d.category : d \in M}}

\* The second aggregate: the groups in an order { $sort: { totalAmount: -1 } } allows
aggregateByCategory(store, user, r) ==
    SortedSeqs(groupByCategory(store, user, r), "totalAmount", -1)

\* Variant: the expense total taken without Math.abs
calculateTotals_NoAbs(summary) ==
    LET totalIncome == IF "income" \in DOMAIN summary THEN summary["income"].totalAmount ELSE 0
        totalExpenses == IF "expense" \in DOMAIN summary THEN summary["expense"].totalAmount ELSE 0
    IN  [totalIncome |-> totalIncome, totalExpenses |-> totalExpenses,
         netIncome |-> totalIncome - totalExpenses,
         transactionCount |-> SumOver(DOMAIN summary, [t \in DOMAIN summary |-> summary[t].count])]

\* The totals computed from the per-type groups (lines 370-384)
calculateTotals(summary) ==
    LET totalIncome == IF "income" \in DOMAIN summary THEN summary["income"].totalAmount ELSE 0
        totalExpenses == IF "expense" \in DOMAIN summary THEN Abs(summary["expense"].totalAmount) ELSE 0
    IN  [totalIncome |-> totalIncome, totalExpenses |-> totalExpenses,
         netIncome |-> totalIncome - totalExpenses,
         transactionCount |-> SumOver(DOMAIN summary, [t \in DOMAIN summary |-> summary[t].count])]

----------------------------------------------------------------------------
\* The state machine

Idle == [pc |-> "idle", user |-> "", locals |-> <<>>]

NoRes == [conn |-> 0, op |-> "none", user |-> "", in |-> <<>>, status |-> 0, json |-> <<>>]

Init ==
    /\ txs = <<>>
    /\ nextId = 1
    /\ now = 0
    /\ req = [c \in Conns |-> Idle]
    /\ res = NoRes

\* A request arrives on connection c and runs through router.use(authenticate)
Authenticate(c, h) ==
    /\ req[c].pc = "idle"
    /\ LET a == authenticate(h)
       IN  IF a.next
           THEN /\ req' = [req EXCEPT ![c] = [pc |-> "handler", user |-> a.user, locals |-> <<>>]]
                /\ res' = [conn |-> c, op |-> "authenticate", user |-> a.user, in |-> h,
                           status |-> 0, json |-> <<>>]
           ELSE /\ req' = req
                /\ res' = [conn |-> c, op |-> "authenticate", user |-> "", in |-> h,
                           status |-> a.status, json |-> [code |-> a.code]]
    /\ UNCHANGED <<txs, nextId, now>>

\* The handler on connection c sends its response
Respond(c, op, in, r) ==
    /\ txs' = r.store
    /\ req' = [req EXCEPT ![c] = Idle]
    /\ res' = [conn |-> c, op |-> op, user |-> req[c].user, in |-> in,
               status |-> r.status, json |-> r.json]

\* POST /; at most max transactions are ever created
Post(c, body, max) ==
    /\ req[c].pc = "handler"
    /\ LET r == postTransaction(txs, nextId, req[c].user, body, now)
       IN  /\ r.status = 201 => nextId <= max
           /\ Respond(c, "post", [body |-> body], r)
           /\ nextId' = IF r.status = 201 THEN nextId + 1 ELSE nextId
    /\ UNCHANGED now

Get(c, id) ==
    /\ req[c].pc = "handler"
    /\ Respond(c, "get", [id |-> id], getTransaction(txs, req[c].user, id))
    /\ UNCHANGED <<nextId, now>>

Put(c, id, body) ==
    /\ req[c].pc = "handler"
    /\ Respond(c, "put", [id |-> id, body |-> body], putTransaction(txs, req[c].user, id, body, now))
    /\ UNCHANGED <<nextId, now>>

Delete(c, id) ==
    /\ req[c].pc = "handler"
    /\ Respond(c, "delete", [id |-> id], deleteTransaction(txs, req[c].user, id))
    /\ UNCHANGED <<nextId, now>>

\* GET /: the find
ListFind(c, query) ==
    /\ req[c].pc = "handler"
    /\ LET l == listFind(txs, req[c].user, query)
       IN  IF l.throws
           THEN /\ req' = [req EXCEPT ![c] = Idle]
                /\ res' = [conn |-> c, op |-> "list", user |-> req[c].user, in |-> [query |-> query],
                           status |-> 500, json |-> ServerError("Failed to fetch transactions")]
           ELSE \E page \in l.results :
                /\ req' = [req EXCEPT ![c].pc = "count",
                                      ![c].locals = [query |-> query, filter |-> l.filter,
                                                     page |-> l.page, limit |-> l.limit,
                                                     transactions |-> page]]
                /\ res' = NoRes
    /\ UNCHANGED <<txs, nextId, now>>

\* GET /: the countDocuments and the response
ListCount(c) ==
    /\ req[c].pc = "count"
    /\ req' = [req EXCEPT ![c] = Idle]
    /\ res' = [conn |-> c, op |-> "list", user |-> req[c].user,
               in |-> [query |-> req[c].locals.query],
               status |-> 200, json |-> listRespond(txs, req[c].locals)]
    /\ UNCHANGED <<txs, nextId, now>>

\* GET /analytics/summary: the aggregate by type
SummaryAggregate(c, query) ==
    /\ req[c].pc = "handler"
    /\ LET r == analyticsRange(query, now)
       IN  req' = [req EXCEPT ![c].pc = "breakdown",
                              ![c].locals = [query |-> query, range |-> r,
                                             summary |-> aggregateByType(txs, req[c].user, r)]]
    /\ res' = NoRes
    /\ UNCHANGED <<txs, nextId, now>>

\* GET /analytics/summary: the aggregate by category, the totals, the response
SummaryRespond(c) ==
    /\ req[c].pc = "breakdown"
    /\ \E breakdown \in aggregateByCategory(txs, req[c].user, req[c].locals.range) :
        res' = [conn |-> c, op |-> "summary", user |-> req[c].user,
                in |-> [query |-> req[c].locals.query], status |-> 200,
                json |-> [success |-> TRUE,
                          summary |-> Merge(calculateTotals(req[c].locals.summary),
                                            [dateRange |-> req[c].locals.range]),
                          categoryBreakdown |-> breakdown,
                          monthlyTrends |-> req[c].locals.summary]]
    /\ req' = [req EXCEPT ![c] = Idle]
    /\ UNCHANGED <<txs, nextId, now>>

\* Time passes
Tick ==
    /\ now < MaxTime
    /\ now' = now + 1
    /\ res' = NoRes
    /\ UNCHANGED <<txs, nextId, req>>

----------------------------------------------------------------------------
\* Spec: two owners, a deactivated account and strangers creating, reading,
\* changing and deleting transactions, one request after the other.

Food == "Food & Dining"

\* A body with the keys D of the full body f
BodiesOf(F, Ds) == {Restrict(f, D) : f \in F, D \in Ds}

PostBodies ==
    BodiesOf([amount : {5}, description : {<<"a">>}, date : {0},
              category : {Food, "Transportation"}, userId : {"u1", "u2"}],
             {RequiredKeys, RequiredKeys \cup {"userId"}})

PutBodies ==
    BodiesOf([amount : {0}, category : {"Transportation"}, userId : {"u1", "u2"}],
             {{}, {"amount"}, {"category"}, {"userId"}, {"category", "userId"}})

Ids == 0..MaxTx

ListQueries ==
    {<<>>, [category |-> Food], [category |-> "Transportation"],
     [page |-> 2, limit |-> 1], [sortBy |-> "amount", sortOrder |-> "asc", limit |-> 1],
     [category |-> Food, minAmount |-> Num(6)],
     [userId |-> "u2"], [userId |-> "u1", category |-> Food]}

SummaryQueries == {<<>>, [startDate |-> 0, endDate |-> 0]}

Next ==
    \E c \in {1} :
        \/ \E h \in Headers : Authenticate(c, h)
        \/ \E b \in PostBodies : Post(c, b, MaxTx)
        \/ \E i \in Ids : Get(c, i)
        \/ \E i \in Ids, b \in PutBodies : Put(c, i, b)
        \/ \E i \in Ids : Delete(c, i)
        \/ \E q \in ListQueries : ListFind(c, q)
        \/ ListCount(c)
        \/ \E q \in SummaryQueries : SummaryAggregate(c, q)
        \/ SummaryRespond(c)

Spec == Init /\ [][Next]_vars

----------------------------------------------------------------------------
\* Ownership and authentication (checked under Spec)

HandlerOps == {"post", "get", "put", "delete", "list", "summary"}

\* The document with this id belongs to someone other than the requester
Foreign(store, id, user) == id \in DOMAIN store /\ store[id].userId # user

\* C1: every transaction a list response returns to its requester is owned by
\* the requester, and with a category filter is of that category, whatever
\* the other owners have stored.
C1_ListOwnedOnly ==
    (res.op = "list" /\ res.status = 200) =>
        \A i \in 1..Len(res.json.transactions) :
            /\ res.json.transactions[i].userId = res.user
            /\ Has(res.in.query, "category") =>
                   res.json.transactions[i].category = res.in.query.category

\* u1 lists Food and gets a record while u2 owns a Food record too
C1_Witness ==
    /\ res.op = "list" /\ res.status = 200 /\ res.user = "u1"
    /\ Has(res.in.query, "category") /\ res.in.query.category = Food
    /\ Len(res.json.transactions) >= 1
    /\ \E i \in DOMAIN txs : txs[i].userId = "u2" /\ txs[i].category = Food

\* The response a get, put or delete request has on a given store
HandlerResult(store, op, user, in, clock) ==
    CASE op = "get" -> getTransaction(store, user, in.id)
      [] op = "put" -> putTransaction(store, user, in.id, in.body, clock)
      [] op = "delete" -> deleteTransaction(store, user, in.id)

\* C2 as stated: a GET, PUT or DELETE of another owner's transaction is
\* answered 404.
C2_ForeignAlways404 ==
    (res.op \in {"get", "put", "delete"} /\ Foreign(txs, res.in.id, res.user)) =>
        res.status = 404

\* C2 amended: a GET, PUT or DELETE of another owner's transaction leaves the
\* store as it was, is answered exactly as the same request for an id that is
\* not in the store, and that answer is 404 NotFound unless it is a PUT whose
\* body fails validation, which is answered 400.
C2_ForeignAsAbsent ==
    [][(res'.op \in {"get", "put", "delete"} /\ Foreign(txs, res'.in.id, res'.user)) =>
          LET absent == HandlerResult(Remove(txs, res'.in.id), res'.op, res'.user, res'.in, now)
          IN  /\ txs' = txs
              /\ res'.status = absent.status /\ res'.json = absent.json
              /\ res'.status \in {400, 404}
              /\ res'.status = 400 => (res'.op = "put" /\ updateSchemaValidate(res'.in.body, now).error)
              /\ res'.status = 404 => res'.json.error = "Transaction not found"]_vars

\* u1's valid PUT on u2's record was answered 404 and the record is as u2 made it
C2_Witness ==
    /\ res.op = "put" /\ res.status = 404 /\ res.user = "u1"
    /\ res.in.body = [category |-> "Transportation"]
    /\ Foreign(txs, res.in.id, "u1") /\ txs[res.in.id].category = Food

\* C3: a stored transaction's userId is the authenticated user of the POST
\* that created it, and no later request changes it.
C3_OwnerFixed ==
    [][/\ \A i \in (DOMAIN txs) \cap (DOMAIN txs') : txs'[i].userId = txs[i].userId
       /\ \A i \in (DOMAIN txs') \ (DOMAIN txs) :
              /\ res'.op = "post"
              /\ req[res'.conn].pc = "handler"
              /\ txs'[i].userId = req[res'.conn].user]_vars

\* A PUT naming another userId in its body was made on the requester's own
\* record, and the record is still the requester's
C3_Witness ==
    /\ res.op = "put" /\ Has(res.in.body, "userId") /\ res.in.body.userId # res.user
    /\ res.in.id \in DOMAIN txs /\ txs[res.in.id].userId = res.user

\* The conditions under which authenticate lets a request through
AuthPasses(h) ==
    /\ h.scheme = "Bearer"
    /\ h.verify = "ok"
    /\ h.id \in DOMAIN UserDocs
    /\ UserDocs[h.id].isActive

\* C4: a handler runs, and the store is touched, only for a request that
\* authenticate passed on with next(); authenticate does so only for a Bearer
\* token that verifies and names an existing active user, and answers 401 or
\* 500 without calling next() otherwise.
C4_AuthGate ==
    [][/\ (res'.op \in HandlerOps \/ txs' # txs) =>
              /\ req[res'.conn].pc # "idle"
              /\ req[res'.conn].user \in DOMAIN UserDocs
              /\ UserDocs[req[res'.conn].user].isActive
       /\ \A c \in Conns : (req[c].pc = "idle" /\ req'[c].pc # "idle") =>
              /\ res'.op = "authenticate" /\ res'.conn = c
              /\ AuthPasses(res'.in)
              /\ req'[c].pc = "handler" /\ req'[c].user = res'.in.id
       /\ (res'.op = "authenticate" /\ res' # res /\ ~AuthPasses(res'.in)) =>
              /\ res'.status \in {401, 500}
              /\ req' = req /\ txs' = txs]_vars

\* The deactivated account presented a good token and was turned away
C4_Witness ==
    /\ res.op = "authenticate" /\ res.in.scheme = "Bearer" /\ res.in.verify = "ok"
    /\ res.in.id = "u3" /\ res.status = 401 /\ req[res.conn].pc = "idle"

----------------------------------------------------------------------------
\* SpecValidation: one owner creating and changing transactions with zero,
\* negative and positive amounts, past and future dates, with and without a
\* type, while time passes.

OwnerHeaders == {[scheme |-> "Bearer", verify |-> "ok", id |-> "u1", saveFails |-> FALSE]}

ValidationPostBodies ==
    BodiesOf([amount : {-1, 0, 1}, description : {<<"a">>}, date : {0, 1},
              category : {Food}, type : Types],
             {RequiredKeys, RequiredKeys \cup {"type"}})

ValidationPutBodies ==
    BodiesOf([amount : {-1, 0, 1}, date : {1}, type : Types],
             {{}, {"amount"}, {"type"}, {"amount", "type"}, {"date"}})

NextValidation ==
    \E c \in {1} :
        \/ \E h \in OwnerHeaders : Authenticate(c, h)
        \/ \E b \in ValidationPostBodies : Post(c, b, MaxTx)
        \/ \E i \in Ids, b \in ValidationPutBodies : Put(c, i, b)
        \/ \E i \in Ids : Delete(c, i)
        \/ Tick

SpecValidation == Init /\ [][NextValidation]_vars

\* C5: a create or an update with amount 0 is answered 400 and leaves the
\* store as it was, and no stored transaction has amount 0.
C5_ZeroAmountRejected ==
    [][/\ (res'.op \in {"post", "put"} /\ Has(res'.in.body, "amount") /\ res'.in.body.amount = 0) =>
              (res'.status = 400 /\ txs' = txs)
       /\ \A i \in DOMAIN txs' : txs'[i].amount # 0]_vars

\* An update of the owner's own record with amount 0 was refused
C5_Witness ==
    /\ res.op = "put" /\ Has(res.in.body, "amount") /\ res.in.body.amount = 0
    /\ res.status = 400
    /\ res.in.id \in DOMAIN txs /\ txs[res.in.id].userId = res.user

\* C6: a create with a date after now is answered 400 and inserts nothing, a
\* create with a date at or before now (and an otherwise valid body) is
\* answered 201, and the inserted record's date is at most now.
C6_FutureDateRejected ==
    [][res'.op = "post" =>
          /\ (Has(res'.in.body, "date") /\ res'.in.body.date > now) =>
                 (res'.status = 400 /\ txs' = txs)
          /\ (res'.in.body.date <= now /\ res'.in.body.amount # 0) =>
                 (res'.status = 201 /\ txs' # txs)
          /\ \A i \in (DOMAIN txs') \ (DOMAIN txs) : txs'[i].date <= now]_vars

\* A create dated after now, with a valid amount, was refused for its date
C6_Witness ==
    /\ res.op = "post" /\ res.in.body.date > now /\ res.in.body.amount # 0
    /\ res.status = 400
    /\ res.json.details = "Transaction date cannot be in the future"

\* A create dated exactly now was accepted
C6_WitnessAtNow ==
    /\ res.op = "post" /\ res.in.body.date = now /\ now > 0 /\ res.status = 201

\* C7: a created transaction has the type of its body when the body has one,
\* otherwise income for a positive and expense for a negative amount; and a
\* transaction gets the type transfer only from a request whose body says so.
C7_TypeOnCreate ==
    [][/\ (res'.op = "post" /\ res'.status = 201) =>
              LET b == res'.in.body
                  t == txs'[nextId].type
              IN  /\ nextId \notin DOMAIN txs
                  /\ Has(b, "type") => t = b.type
                  /\ (~Has(b, "type") /\ b.amount > 0) => t = "income"
                  /\ (~Has(b, "type") /\ b.amount < 0) => t = "expense"
       /\ \A i \in DOMAIN txs' :
              (txs'[i].type = "transfer" /\ (i \in DOMAIN txs => txs[i].type # "transfer")) =>
                  /\ res'.op \in {"post", "put"}
                  /\ Has(res'.in.body, "type") /\ res'.in.body.type = "transfer"]_vars

\* A create with a positive amount and the explicit type expense was stored
\* as an expense
C7_Witness ==
    /\ res.op = "post" /\ res.status = 201
    /\ Has(res.in.body, "type") /\ res.in.body.type = "expense" /\ res.in.body.amount > 0
    /\ res.json.transaction.type = "expense"

\* C8: an update that succeeds and whose body has no type leaves the type as
\* it was; the type changes on update only to the type the body supplies.
C8_TypeKeptOnUpdate ==
    [][(res'.op = "put" /\ res'.status = 200) =>
          LET b == res'.in.body
              i == res'.in.id
          IN  /\ ~Has(b, "type") => txs'[i].type = txs[i].type
              /\ txs'[i].type # txs[i].type => (Has(b, "type") /\ txs'[i].type = b.type)
              /\ Has(b, "amount") => txs'[i].amount = b.amount]_vars

\* An update without a type flipped the amount of an income record to
\* negative, and the record is still income
C8_Witness ==
    /\ res.op = "put" /\ res.status = 200
    /\ Has(res.in.body, "amount") /\ ~Has(res.in.body, "type") /\ res.in.body.amount < 0
    /\ res.in.id \in DOMAIN txs
    /\ txs[res.in.id].type = "income" /\ txs[res.in.id].amount < 0

----------------------------------------------------------------------------
\* SpecAnalytics: two owners creating income, expense and transfer records
\* (among them an expense booked with a positive amount) and asking for the
\* summary over ranges that hold them and ranges that hold nothing.

TwoOwnerHeaders ==
    {[scheme |-> "Bearer", verify |-> "ok", id |-> u, saveFails |-> FALSE] : u \in {"u1", "u2"}}

AnalyticsBody(amount, category) ==
    [amount |-> amount, description |-> <<"a">>, date |-> 0, category |-> category]

AnalyticsPostBodies ==
    {AnalyticsBody(100, "Income"),
     AnalyticsBody(-40, Food),
     AnalyticsBody(-10, Food),
     AnalyticsBody(-10, "Transportation"),
     Merge(AnalyticsBody(10, Food), [type |-> "expense"]),
     Merge(AnalyticsBody(-40, "Transfer"), [type |-> "transfer"])}

AnalyticsQueries ==
    {<<>>, [startDate |-> 0, endDate |-> 0], [startDate |-> 1, endDate |-> 1],
     [startDate |-> 1, endDate |-> 0]}

NextAnalytics ==
    \E c \in {1} :
        \/ \E h \in TwoOwnerHeaders : Authenticate(c, h)
        \/ \E b \in AnalyticsPostBodies : Post(c, b, MaxSummaryTx)
        \/ \E q \in AnalyticsQueries : SummaryAggregate(c, q)
        \/ SummaryRespond(c)

SpecAnalytics == Init /\ [][NextAnalytics]_vars

\* The requester's transactions of the given type within the range of the
\* summary response
InSummary(type) ==
    {txs[i] : i \in {j \in DOMAIN txs :
        /\ InRange(txs[j], res.user, res.json.summary.dateRange)
        /\ txs[j].type = type}}

\* C9: the summary's totalExpenses is the sum of the absolute amounts of the
\* owner's expense transactions within the range, and so the sum of
\* totalAmount over the categoryBreakdown.
C9_TotalExpensesIsAbsSum ==
    (res.op = "summary" /\ res.status = 200) =>
        /\ res.json.summary.totalExpenses =
               SumOver(InSummary("expense"), AbsAmounts(InSummary("expense")))
        /\ res.json.summary.totalExpenses =
               SumOver(DOMAIN res.json.categoryBreakdown,
                       [k \in DOMAIN res.json.categoryBreakdown |->
                           res.json.categoryBreakdown[k].totalAmount])

\* C10: totalIncome is the signed sum of the income group, totalExpenses the
\* absolute value of the signed sum of the expense group, netIncome their
\* difference, transactionCount the number of transactions of all three
\* types, each 0 when there is no such group; and the groups reported are
\* those of the owner's transactions within the range.
C10_TotalsFromGroups ==
    (res.op = "summary" /\ res.status = 200) =>
        LET inc == InSummary("income")
            exp == InSummary("expense")
            tra == InSummary("transfer")
            g == res.json.monthlyTrends
            t == res.json.summary
        IN  /\ t.totalIncome = SumOver(inc, Amounts(inc))
            /\ t.totalExpenses = Abs(SumOver(exp, Amounts(exp)))
            /\ t.netIncome = t.totalIncome - t.totalExpenses
            /\ t.transactionCount = Cardinality(inc) + Cardinality(exp) + Cardinality(tra)
            /\ DOMAIN g = {d.type : d \in inc \cup exp \cup tra}
            /\ \A k \in DOMAIN g :
                   /\ g[k].totalAmount = SumOver(InSummary(k), Amounts(InSummary(k)))
                   /\ g[k].count = Cardinality(InSummary(k))

\* The summary of {100 income, -40 expense, -10 expense}: 100, 50, 50, 3
C10_Witness ==
    /\ res.op = "summary" /\ res.status = 200
    /\ {<<d.amount, d.type>> : d \in {txs[i] : i \in {j \in DOMAIN txs : txs[j].userId = res.user}}}
           = {<<100, "income">>, <<-40, "expense">>, <<-10, "expense">>}
    /\ Cardinality(DOMAIN txs) = 3
    /\ res.json.summary.totalIncome = 100 /\ res.json.summary.totalExpenses = 50
    /\ res.json.summary.netIncome = 50 /\ res.json.summary.transactionCount = 3

\* C11: when none of the owner's transactions is dated within the range of
\* the summary (also a range of one instant, also one whose start is after
\* its end), the response is a success with all four totals 0 and an empty
\* categoryBreakdown.
C11_EmptyRangeAllZero ==
    (res.op = "summary" /\
     ~\E i \in DOMAIN txs :
          /\ txs[i].userId = res.user
          /\ txs[i].date >= res.json.summary.dateRange.start
          /\ txs[i].date <= res.json.summary.dateRange.end) =>
        /\ res.status = 200 /\ res.json.success
        /\ res.json.summary.totalIncome = 0 /\ res.json.summary.totalExpenses = 0
        /\ res.json.summary.netIncome = 0 /\ res.json.summary.transactionCount = 0
        /\ res.json.categoryBreakdown = <<>>
        /\ DOMAIN res.json.monthlyTrends = {}

\* An owner with income and expenses asked for a range whose start is after
\* its end and got the empty summary
C11_Witness ==
    /\ res.op = "summary" /\ res.status = 200
    /\ res.json.summary.dateRange.start > res.json.summary.dateRange.end
    /\ \E i, j \in DOMAIN txs :
           /\ txs[i].userId = res.user /\ txs[i].type = "income"
           /\ txs[j].userId = res.user /\ txs[j].type = "expense"
    /\ res.json.summary.transactionCount = 0 /\ res.json.categoryBreakdown = <<>>

\* C12: the categoryBreakdown has exactly one entry for each category of the
\* owner's expense transactions within the range and none for any other;
\* each entry carries the sum of the absolute amounts and the number of those
\* transactions; the entries come with totalAmount non-increasing.
C12_BreakdownPerExpenseCategory ==
    (res.op = "summary" /\ res.status = 200) =>
        LET cb == res.json.categoryBreakdown
            E == InSummary("expense")
            Of(c) == {d \in E : d.category = c}
        IN  /\ {cb[k]._id : k \in DOMAIN cb} = {d.category : d \in E}
            /\ Len(cb) = Cardinality({d.category : d \in E})
            /\ \A k \in DOMAIN cb :
                   /\ cb[k].totalAmount = SumOver(Of(cb[k]._id), AbsAmounts(Of(cb[k]._id)))
                   /\ cb[k].count = Cardinality(Of(cb[k]._id))
            /\ \A k, l \in DOMAIN cb : k < l => cb[k].totalAmount >= cb[l].totalAmount

\* Food (40) comes before Transportation (10), and the owner's income
\* record has no entry
C12_Witness ==
    /\ res.op = "summary" /\ res.status = 200
    /\ Len(res.json.categoryBreakdown) = 2
    /\ res.json.categoryBreakdown[1] = [_id |-> Food, totalAmount |-> 40, count |-> 1]
    /\ res.json.categoryBreakdown[2] = [_id |-> "Transportation", totalAmount |-> 10, count |-> 1]
    /\ res.json.summary.totalIncome = 100

----------------------------------------------------------------------------
\* Listing (checked under SpecList): two owners create transactions that
\* differ in amount, date, category and type, and list them with filters and
\* pages.  Date -1 is an instant before the start of the run.

ListBody(amount, date, category) ==
    [amount |-> amount, description |-> <<"a">>, date |-> date, category |-> category]

ListPostBodies ==
    {ListBody(-10, -1, Food), ListBody(-30, 0, "Transportation"), ListBody(20, 0, Food)}

FilterQueries ==
    {<<>>,
     [startDate |-> Num(0)], [endDate |-> Num(-1)],
     [startDate |-> Num(-1), endDate |-> Num(-1)],
     [category |-> Food], [type |-> "expense"], [type |-> "transfer"],
     [minAmount |-> Num(-10)], [maxAmount |-> Num(-10)],
     [minAmount |-> Num(-30), maxAmount |-> Num(-10)],
     [category |-> Food, type |-> "expense", endDate |-> Num(0), maxAmount |-> Num(20)],
     [startDate |-> NaN], [endDate |-> NaN], [minAmount |-> NaN], [maxAmount |-> NaN],
     [category |-> Food, minAmount |-> NaN]}

PageQueries ==
    {[page |-> p, limit |-> l] : p \in 1..3, l \in 1..2} \cup {[page |-> 2], [limit |-> 1]}

PagedQueries ==
    {Merge(f, pg) : f \in {<<>>, [type |-> "transfer"], [category |-> Food]}, pg \in PageQueries}

NextList ==
    \E c \in {1} :
        \/ \E h \in TwoOwnerHeaders : Authenticate(c, h)
        \/ \E b \in ListPostBodies : Post(c, b, MaxTx)
        \/ \E q \in FilterQueries \cup PagedQueries : ListFind(c, q)
        \/ ListCount(c)

SpecList == Init /\ [][NextList]_vars

\* The query of a list response with the defaults of the handler filled in
ListAsked == Merge([page |-> 1, limit |-> 50], res.in.query)

\* C13 as stated: a list request that matches nothing is answered with
\* totalPages 0, hasNextPage false and hasPrevPage false, whatever page and
\* limit it asked for.
C13_EmptyNoPagesNoPrev ==
    (res.op = "list" /\ res.status = 200 /\ res.json.pagination.totalTransactions = 0) =>
        /\ res.json.pagination.totalPages = 0
        /\ ~res.json.pagination.hasNextPage
        /\ ~res.json.pagination.hasPrevPage

\* C13 amended: a list request that matches nothing is answered with
\* totalPages 0 and hasNextPage false for every page >= 1 and limit >= 1, and
\* with hasPrevPage true exactly when the requested page is above 1.
C13_EmptyNoPages ==
    (res.op = "list" /\ res.status = 200 /\ res.json.pagination.totalTransactions = 0) =>
        /\ res.json.pagination.totalPages = 0
        /\ ~res.json.pagination.hasNextPage
        /\ res.json.pagination.hasPrevPage <=> (ListAsked.page > 1)
        /\ res.json.transactions = <<>>

\* Page 2 of a type nobody holds, asked by an owner who has records
C13_Witness ==
    /\ res.op = "list" /\ res.status = 200
    /\ res.in.query = [type |-> "transfer", page |-> 2, limit |-> 1]
    /\ \E i \in DOMAIN txs : txs[i].userId = res.user
    /\ res.json.pagination.totalTransactions = 0
    /\ res.json.pagination.totalPages = 0
    /\ res.json.pagination.hasPrevPage

\* The owner's transactions a list response's query selects, by the stored
\* fields alone
ListSelected ==
    LET q == res.in.query
    IN  {txs[i] : i \in {j \in DOMAIN txs :
            /\ txs[j].userId = res.user
            /\ Has(q, "startDate") => txs[j].date >= q.startDate.n
            /\ Has(q, "endDate") => txs[j].date <= q.endDate.n
            /\ Has(q, "category") => txs[j].category = q.category
            /\ Has(q, "type") => txs[j].type = q.type
            /\ Has(q, "minAmount") => txs[j].amount >= q.minAmount.n
            /\ Has(q, "maxAmount") => txs[j].amount <= q.maxAmount.n}}

\* C14: with T records matching, page p >= 1 and limit L >= 1 (1 and 50 when
\* not given), the response has totalPages = ceil(T / L) (0 when T = 0),
\* hasNextPage = (p < totalPages), hasPrevPage = (p > 1), currentPage = p,
\* limit = L, and carries the records from position (p - 1) * L + 1 of the
\* sorted matches on, at most L of them.
C14_PaginationArithmetic ==
    (res.op = "list" /\ res.status = 200) =>
        LET pg == res.json.pagination
            p == ListAsked.page
            L == ListAsked.limit
            T == pg.totalTransactions
            skip == (p - 1) * L
            left == IF T > skip THEN T - skip ELSE 0
        IN  /\ pg.totalPages * L >= T /\ (pg.totalPages - 1) * L < T
            /\ T = 0 => pg.totalPages = 0
            /\ pg.hasNextPage <=> (p < pg.totalPages)
            /\ pg.hasPrevPage <=> (p > 1)
            /\ pg.currentPage = p /\ pg.limit = L
            /\ Len(res.json.transactions) = Min(L, left)
            /\ \E s \in SortedSeqs(ListSelected, "date", -1) :
                   \A k \in 1..Len(res.json.transactions) :
                       res.json.transactions[k] = s[skip + k]

\* Page 2 of 2 with limit 1: the second of the owner's two records, newest
\* first; and a single record on a page of 2
C14_Witness ==
    /\ res.op = "list" /\ res.status = 200
    /\ res.in.query = [page |-> 2, limit |-> 1]
    /\ res.json.pagination =
           [currentPage |-> 2, totalPages |-> 2, totalTransactions |-> 2,
            hasNextPage |-> FALSE, hasPrevPage |-> TRUE, limit |-> 1]
    /\ Len(res.json.transactions) = 1
    /\ res.json.transactions[1].date = -1

\* One record with limit 2 makes one page: the quotient is rounded up
C14_WitnessRoundedUp ==
    /\ res.op = "list" /\ res.status = 200
    /\ res.in.query = [page |-> 1, limit |-> 2]
    /\ res.json.pagination.totalTransactions = 1
    /\ res.json.pagination.totalPages = 1
    /\ ~res.json.pagination.hasNextPage

\* C15: a list request whose startDate or endDate is no date, or whose
\* minAmount or maxAmount is no number, is answered with a 400 validation
\* error and never with an internal failure.
C15_BadFilterValueIs400 ==
    (res.op = "list" /\
     \E k \in {"startDate", "endDate", "minAmount", "maxAmount"} :
         Has(res.in.query, k) /\ ~res.in.query[k].ok) =>
        /\ res.status = 400
        /\ res.json.error # "Internal server error"

\* C16: the records a list request matches, and its totalTransactions, are
\* exactly the owner's records that satisfy every constraint the query
\* carries (date >= startDate, date <= endDate, category and type equal,
\* amount >= minAmount, amount <= maxAmount, bounds included); a query
\* without parameters matches all of the owner's records.
C16_FilterConjunction ==
    (res.op = "list" /\ res.status = 200) =>
        /\ res.json.pagination.totalTransactions = Cardinality(ListSelected)
        /\ \A k \in DOMAIN res.json.transactions : res.json.transactions[k] \in ListSelected
        /\ Cardinality(ListSelected) <= ListAsked.limit /\ ListAsked.page = 1 =>
               {res.json.transactions[k] : k \in DOMAIN res.json.transactions} = ListSelected
        /\ res.in.query = <<>> =>
               ListSelected = {txs[i] : i \in {j \in DOMAIN txs : txs[j].userId = res.user}}

\* Of the owner's records of -10 and 20, the range -30..-10 selects the one
\* on its upper bound
C16_Witness ==
    /\ res.op = "list" /\ res.status = 200
    /\ res.in.query = [minAmount |-> Num(-30), maxAmount |-> Num(-10)]
    /\ \E i, j \in DOMAIN txs :
           /\ txs[i].userId = res.user /\ txs[i].amount = 20
           /\ txs[j].userId = res.user /\ txs[j].amount = -10
    /\ res.json.pagination.totalTransactions = 1
    /\ res.json.transactions[1].amount = -10

\* Four constraints at once select one of the owner's two Food records
C16_WitnessAllConstraints ==
    /\ res.op = "list" /\ res.status = 200
    /\ res.in.query = [category |-> Food, type |-> "expense", endDate |-> Num(0),
                       maxAmount |-> Num(20)]
    /\ Cardinality({i \in DOMAIN txs : txs[i].userId = res.user /\ txs[i].category = Food}) = 2
    /\ res.json.pagination.totalTransactions = 1

----------------------------------------------------------------------------
\* Search (checked under SpecSearch): one owner creates transactions whose
\* descriptions hold letters in both cases, a dot and a parenthesis, and
\* lists them with a search string.

SearchBody(description) ==
    [amount |-> -10, description |-> description, date |-> 0, category |-> Food]

SearchPostBodies == {SearchBody(<<"a", "b">>), SearchBody(<<"a", ".">>), SearchBody(<<"B", "(">>)}

SearchQueries ==
    {[search |-> <<"b">>], [search |-> <<"A">>], [search |-> <<"a", ".">>],
     [search |-> <<".">>], [search |-> <<"(">>]}

NextSearch ==
    \E c \in {1} :
        \/ \E h \in OwnerHeaders : Authenticate(c, h)
        \/ \E b \in SearchPostBodies : Post(c, b, MaxTx)
        \/ \E q \in SearchQueries : ListFind(c, q)
        \/ ListCount(c)

SpecSearch == Init /\ [][NextSearch]_vars

\* Text t contains p as a substring, letters compared without case
Contains(t, p) ==
    \E i \in 1..(Len(t) - Len(p) + 1) :
        \A j \in 1..Len(p) : Lower(p[j]) = Lower(t[i + j - 1])

\* C17: a list request with a search string is answered with exactly the
\* owner's records whose description contains the string as a literal
\* substring, letters compared without case, also when the string holds
\* characters such as ".", "*" or "(".
C17_SearchIsLiteralSubstring ==
    (res.op = "list" /\ Has(res.in.query, "search")) =>
        /\ res.status = 200
        /\ res.json.pagination.totalTransactions =
               Cardinality({i \in DOMAIN txs :
                   /\ txs[i].userId = res.user
                   /\ Contains(txs[i].description, res.in.query.search)})

----------------------------------------------------------------------------
\* Updates and deletions on two connections (checked under SpecUpdate): the
\* requests of two connections are in flight at once and their store calls
\* interleave in any order.  Connection 1 is the owner's and also lists (one
\* record a page, any of the owner's records first, as all bear one date);
\* connection 2 is the owner's or another user's.  Only the owner creates.

UpdatePostBodies ==
    {[amount |-> -10, description |-> <<"a">>, date |-> 0, category |-> Food,
      isTaxDeductible |-> TRUE, paymentMethod |-> "cash"]}

UpdatePutBodies ==
    {[description |-> <<"b">>, category |-> "Transportation"],
     [description |-> <<"c">>, amount |-> -1],
     [amount |-> 0]}

UpdateIds == 1..MaxTx

NextUpdate ==
    \E c \in Conns :
        \/ \E h \in (IF c = 1 THEN OwnerHeaders ELSE TwoOwnerHeaders) : Authenticate(c, h)
        \/ \E b \in UpdatePostBodies : req[c].user = "u1" /\ Post(c, b, MaxTx)
        \/ \E i \in UpdateIds : Get(c, i)
        \/ \E i \in UpdateIds, b \in UpdatePutBodies : Put(c, i, b)
        \/ \E i \in UpdateIds : Delete(c, i)
        \/ c = 1 /\ ListFind(c, [limit |-> 1])
        \/ ListCount(c)

SpecUpdate == Init /\ [][NextUpdate]_vars

\* The ids of the transactions deleted so far: ids are handed out in order
\* and a record leaves the store only through a successful DELETE
Deleted == (1..(nextId - 1)) \ DOMAIN txs

C18_WitnessInFlight ==
    /\ res.op = "delete" /\ res.status = 200 /\ res.in.id \in Deleted
    /\ \E c \in Conns : c # res.conn /\ req[c].pc = "handler" /\ req[c].user = res.user

\* C19: each successful PUT is one store update: it takes the record to the
\* record with every field of its $set document written and every other field
\* as it was, and leaves every other record alone; so two PUTs of one
\* transaction in flight together end in the record that results from
\* applying their $set documents one after the other, the later value winning
\* on a field both write.
C19_PutIsOneUpdate ==
    [][(res'.op = "put" /\ res'.status = 200) =>
          LET x == res'.in.id
              set == Merge([isTaxDeductible |-> FALSE, paymentMethod |-> "other"], res'.in.body)
          IN  /\ x \in DOMAIN txs /\ DOMAIN txs' = DOMAIN txs
              /\ \A i \in DOMAIN txs : i # x => txs'[i] = txs[i]
              /\ DOMAIN txs'[x] = DOMAIN txs[x]
              /\ \A k \in DOMAIN txs[x] :
                     txs'[x][k] = IF k \in DOMAIN set THEN set[k] ELSE txs[x][k]
              /\ res'.json.transaction = txs'[x]]_vars

\* The second of two PUTs of one transaction was applied on connection 2:
\* the description is the later one, the category is the earlier PUT's, the
\* amount the later PUT's
C19_Witness ==
    /\ res.op = "put" /\ res.status = 200 /\ res.conn = 2
    /\ res.in.body = [description |-> <<"c">>, amount |-> -1]
    /\ txs[res.in.id].description = <<"c">>
    /\ txs[res.in.id].category = "Transportation"
    /\ txs[res.in.id].amount = -1

\* The first of two PUTs is answered on connection 1 while the owner's
\* request on connection 2 is in flight
C19_WitnessInFlight ==
    /\ res.op = "put" /\ res.status = 200 /\ res.conn = 1
    /\ req[2].pc = "handler" /\ req[2].user = res.user

\* C20: a successful PUT changes only the fields its body carries; every
\* other field of the record (isTaxDeductible and paymentMethod when the body
\* has only a description) keeps its stored value.
C20_PartialPutKeepsOthers ==
    [][(res'.op = "put" /\ res'.status = 200) =>
          \A k \in (DOMAIN txs[res'.in.id]) \ (DOMAIN res'.in.body) :
              txs'[res'.in.id][k] = txs[res'.in.id][k]]_vars

----------------------------------------------------------------------------
\* Reads that take two store calls, with writes of the same owner between
\* them

\* C21: in every list response, also when the owner's other requests
\* interleave with its find and its countDocuments, the page and the
\* pagination describe one store state: the page holds at most
\* min(limit, totalTransactions) records, and a page that is not empty has
\* currentPage <= totalPages.
C21_PageAgreesWithTotal ==
    (res.op = "list" /\ res.status = 200) =>
        /\ Len(res.json.transactions) <=
               Min(res.json.pagination.limit, res.json.pagination.totalTransactions)
        /\ res.json.transactions # <<>> =>
               res.json.pagination.currentPage <= res.json.pagination.totalPages

\* The summary on connection 1 while the owner creates, changes and deletes
\* transactions on either connection (SpecSummaryRace)

RacePostBodies == {AnalyticsBody(-40, Food), AnalyticsBody(100, "Income")}

RacePutBodies == {[amount |-> -10], [type |-> "income"]}

NextSummaryRace ==
    \E c \in Conns :
        \/ \E h \in OwnerHeaders : Authenticate(c, h)
        \/ \E b \in RacePostBodies : Post(c, b, MaxTx)
        \/ \E i \in UpdateIds, b \in RacePutBodies : Put(c, i, b)
        \/ \E i \in UpdateIds : Delete(c, i)
        \/ c = 1 /\ SummaryAggregate(c, <<>>)
        \/ SummaryRespond(c)

SpecSummaryRace == Init /\ [][NextSummaryRace]_vars

\* C22: in every analytics response, also when the owner's other requests
\* interleave with its two aggregate calls, the breakdown and the grouping by
\* type describe one store state: the counts of the categoryBreakdown add up
\* to the count of the expense group of monthlyTrends (0 when there is none),
\* and so to no more than transactionCount.
C22_BreakdownAgreesWithGroups ==
    (res.op = "summary" /\ res.status = 200) =>
        LET cb == res.json.categoryBreakdown
            counted == SumOver(DOMAIN cb, [k \in DOMAIN cb |-> cb[k].count])
            groups == res.json.monthlyTrends
        IN  /\ counted = IF "expense" \in DOMAIN groups THEN groups["expense"].count ELSE 0
            /\ counted <= res.json.summary.transactionCount

----------------------------------------------------------------------------
\* The pages of one listing (checked under SpecPages): the owner creates
\* transactions, two of them bearing one date, and then asks for pages of the
\* listing on two connections.  Nothing is created while a find has been
\* answered and its request is not, so the pages in flight were all read from
\* the store as it is.

PageQueries12 == {[page |-> p, limit |-> l] : p \in 1..3, l \in 1..2}

NextPages ==
    \E c \in Conns :
        \/ \E h \in OwnerHeaders : Authenticate(c, h)
        \/ \E b \in ListPostBodies :
               /\ \A d \in Conns : req[d].pc # "count"
               /\ Post(c, b, MaxTx)
        \/ \E q \in PageQueries12 : ListFind(c, q)
        \/ ListCount(c)

SpecPages == Init /\ [][NextPages]_vars

\* The owner's transactions, all of which a listing without filter matches
OwnedBy(user) == {txs[i] : i \in {j \in DOMAIN txs : txs[j].userId = user}}

\* The records of a page as a set
PageSet(l) == {l.transactions[k] : k \in DOMAIN l.transactions}

\* C23: with the store unchanged and filter, sort and limit L fixed, the
\* pages 1..totalPages return every matching transaction exactly once, in
\* sort order across pages: a page before the last holds L records, the last
\* holds T - (totalPages - 1) * L, a page after the last is empty, no record
\* is on two pages, and the records of an earlier page sort before those of a
\* later one.
C23_PagesPartitionMatches ==
    \A c, d \in Conns :
        (/\ req[c].pc = "count" /\ req[d].pc = "count"
         /\ req[c].user = req[d].user
         /\ req[c].locals.limit = req[d].locals.limit
         /\ req[c].locals.page < req[d].locals.page) =>
            LET a == req[c].locals
                b == req[d].locals
                L == a.limit
                all == OwnedBy(req[c].user)
                T == Cardinality(all)
                totalPages == (T + L - 1) \div L
                Size(p) == IF p < totalPages THEN L
                           ELSE IF p = totalPages THEN T - (totalPages - 1) * L ELSE 0
            IN  /\ Len(a.transactions) = Size(a.page)
                /\ Len(b.transactions) = Size(b.page)
                /\ PageSet(a) \cap PageSet(b) = {}
                /\ \A x \in PageSet(a), y \in PageSet(b) : x.date >= y.date
                /\ totalPages <= 2 /\ b.page = 2 /\ a.page = 1 =>
                       PageSet(a) \cup PageSet(b) = all

====
